---- MODULE Spec2Model ----
(***************************************************************************)
(* A model of packages/core/src/core/mongo-db.ts: the MongoDb class that   *)
(* stores scheduled tasks (collection "scheduled_tasks") and orchestrator  *)
(* chats (collection "orchestrators").                                     *)
(*                                                                         *)
(* A collection is a function from the _id of each stored document to the  *)
(* document.  Every method of the class issues one MongoDB command, which  *)
(* the server applies atomically to one document; the pure operators below *)
(* (named as the methods) give the collection after the command.  Dates    *)
(* are natural numbers read from the clock `now`.                          *)
(*                                                                         *)
(* The constructor's collectionName keeps its default, "scheduled_tasks",  *)
(* so the two collections are distinct.                                    *)
(***************************************************************************)
EXTENDS Integers, Sequences, FiniteSets, TLC

\* ------------------------------------------------------------------ bounds
MaxTime == 2
MaxTasks == 2
MaxInterval == 1
MaxLimit == 2
MaxStoreTasks == 1
MaxSessions == 1
MaxMessages == 2
NumProducers == 2
NumWorkers == 2
MaxFindTasks == 3
MaxCreateTasks == 2
MaxListSessions == 3
MaxOpens == 2
MaxIsoSessions == 2

\* ------------------------------------------------------------------ inputs
Users == {"u1", "u2"}
TaskUsers == {"u1"}
HandlerNames == {"h"}
TaskDatas == {"d"}
Times == 0..MaxTime
\* intervalMs?: number -- <<>> is "unset" (undefined), <<i>> is the number i
Intervals == {<<>>} \cup {<<i>> : i \in 0..MaxInterval}
Limits == 0..MaxLimit
\* what createTask accepts: handlerName is any string, also the empty one, and
\* nextRunAt any Date, also an Invalid Date (new Date(NaN)), kept apart from
\* the valid times
InvalidDate == -1
AnyHandlerNames == HandlerNames \cup {""}
AnyTimes == Times \cup {InvalidDate}
Statuses == {"pending", "running", "completed", "failed"}
\* HandlerRole is "input" | "output" | "action"; producer p records role RoleOf(p)
RoleOf(p) == IF p = 1 THEN "input" ELSE IF p = 2 THEN "output" ELSE "action"
Producers == 1..NumProducers
Workers == 1..NumWorkers

VARIABLES
    now,            \* the clock read by new Date() / Date.now()
    tasks,          \* this.collection: _id -> ScheduledTask
    nextTaskId,     \* the next ObjectId the driver generates for a task
    held,           \* the tasks a caller of findDueTasks keeps (see TaskRef)
    due,            \* FindSpec: <<limit, array>> of the last findDueTasks call
    sessions,       \* this.orchestratorCollection: _id -> OrchestratorChat
    nextSessionId,  \* the next ObjectId the driver generates for a chat
    req,            \* producer -> <<>>, or <<c>>: its addMessage awaits the server on command c
    nsent,          \* producer -> number of addMessage calls it has made
    commitLog,      \* history: session -> the data of the $push commands applied, in order
    got,            \* <<>>, or <<id, array>>: what the last getMessages(id) returned
    wpc,            \* worker -> "poll" | "claim" | "run" | "write"
    batch,          \* worker -> the tasks of its poll not yet processed
    cur,            \* worker -> <<>>, <<task>>: the task whose handler it runs, or
                    \*   <<task, t>>: its rescheduleIfRecurring(task), called at t, awaits the server
    claimed,        \* history: task -> successful claims since it last became pending
    ends,           \* history: task -> writes that moved it into, or to the other, terminal status
    ret,            \* <<>>, or <<r>>: the call last made through a ...Call action and its outcome
    conn            \* the MongoClient and the handles and indexes connect() sets up

taskVars == <<tasks, nextTaskId, held>>
logVars == <<sessions, nextSessionId, req, nsent, commitLog, got>>
schedVars == <<wpc, batch, cur, claimed, ends>>
callVars == <<ret, conn>>
vars == <<now, tasks, nextTaskId, held, due, sessions, nextSessionId,
          req, nsent, commitLog, got, wpc, batch, cur, claimed, ends, ret, conn>>

\* ------------------------------------------------------------- connection
\* new MongoClient(uri): nothing is connected, no listener is registered on the
\* client, this.collection and this.orchestratorCollection are not assigned
NewClient ==
    [ connected |-> FALSE, opens |-> 0, listeners |-> 0, bound |-> FALSE, indexes |-> {} ]

\* mutant: a client whose connect() opens a connection on every call
ClientConnectAlways(c) == [c EXCEPT !.connected = TRUE, !.opens = @ + 1]

\* this.client.connect() of the driver: opens the connection unless the client
\* is connected already; opens counts the connections opened so far
ClientConnect(c) ==
    IF c.connected THEN c ELSE [c EXCEPT !.connected = TRUE, !.opens = @ + 1]

\* collection.createIndex(key): an index that exists already is left as it is
createIndex(ix, coll, key) == ix \cup {<<coll, key>>}

\* connect(): client.connect() when listenerCount("connect") is 0, then the two
\* collection handles are assigned and the three indexes created
connect(c) ==
    LET c1 == IF c.listeners = 0 THEN ClientConnect(c) ELSE c
    IN  [c1 EXCEPT !.bound = TRUE,
                   !.indexes = createIndex(
                                  createIndex(
                                     createIndex(@, "scheduled_tasks", "nextRunAt"),
                                     "scheduled_tasks", "status"),
                                  "orchestrators", "userId")]

\* close(): client.close()
close(c) == [c EXCEPT !.connected = FALSE]

\* ------------------------------------------------------------- task store
Min(a, b) == IF a <= b THEN a ELSE b

\* JavaScript's !x for x : number | undefined
Falsy(iv) == iv = <<>> \/ iv[1] = 0

\* createTask: insertOne of a pending document; id is the generated ObjectId
createTask(coll, id, userId, handlerName, taskData, nextRunAt, intervalMs, t) ==
    coll @@ (id :> [ _id |-> id,
                     userId |-> userId,
                     handlerName |-> handlerName,
                     taskData |-> taskData,
                     nextRunAt |-> nextRunAt,
                     intervalMs |-> intervalMs,
                     status |-> "pending",
                     createdAt |-> t,
                     updatedAt |-> t ])

\* mutant: the filter without its status condition
DueFilterAnyStatus(doc, t) == doc.nextRunAt <= t

\* the filter of findDueTasks: { status: "pending", nextRunAt: { $lte: now } }
DueFilter(doc, t) == doc.status = "pending" /\ doc.nextRunAt <= t

\* mutant: .sort({ nextRunAt: -1 })
SortedDescending(coll, ids) ==
    { s \in [1..Cardinality(ids) -> ids] :
        /\ \A i, j \in 1..Cardinality(ids) : i # j => s[i] # s[j]
        /\ \A i, j \in 1..Cardinality(ids) :
               i < j => coll[s[i]].nextRunAt >= coll[s[j]].nextRunAt }

\* .sort({ nextRunAt: 1 }): every ordering of the matching documents with
\* nextRunAt ascending (the order among equal keys is the server's choice)
SortedByNextRunAt(coll, ids) ==
    { s \in [1..Cardinality(ids) -> ids] :
        /\ \A i, j \in 1..Cardinality(ids) : i # j => s[i] # s[j]
        /\ \A i, j \in 1..Cardinality(ids) :
               i < j => coll[s[i]].nextRunAt <= coll[s[j]].nextRunAt }

\* .limit(n): the first n documents; limit(0) is MongoDB's "no limit"
CursorLimit(s, n) == IF n = 0 THEN s ELSE SubSeq(s, 1, Min(n, Len(s)))

\* mutant: find(...).limit(limit).toArray() -- no sort
findDueTasksUnsorted(coll, limit, t) ==
    LET ids == { id \in DOMAIN coll : DueFilter(coll[id], t) }
    IN  { [ i \in 1..Len(CursorLimit(s, limit)) |-> coll[s[i]] ] :
              s \in { q \in [1..Cardinality(ids) -> ids] :
                         \A i, j \in 1..Cardinality(ids) : i # j => q[i] # q[j] } }

\* findDueTasks: the arrays find(...).sort(...).limit(limit).toArray() can give
findDueTasks(coll, limit, t) ==
    LET ids == { id \in DOMAIN coll : DueFilter(coll[id], t) }
    IN  { [ i \in 1..Len(CursorLimit(s, limit)) |-> coll[s[i]] ] :
              s \in SortedByNextRunAt(coll, ids) }

\* mutant: updateMany({}, ...) -- every document is set to running
markRunningAll(coll, taskId, t) ==
    [id \in DOMAIN coll |-> [coll[id] EXCEPT !.status = "running", !.updatedAt = t]]

\* updateOne({ _id: taskId }, { $set: fields }): no document matches a missing id
markRunning(coll, taskId, t) ==
    IF taskId \in DOMAIN coll
    THEN [coll EXCEPT ![taskId].status = "running", ![taskId].updatedAt = t]
    ELSE coll

markCompleted(coll, taskId, failed, t) ==
    IF taskId \in DOMAIN coll
    THEN [coll EXCEPT ![taskId].status = IF failed THEN "failed" ELSE "completed",
                      ![taskId].updatedAt = t]
    ELSE coll

updateNextRun(coll, taskId, newRunTime, t) ==
    IF taskId \in DOMAIN coll
    THEN [coll EXCEPT ![taskId].status = "pending",
                      ![taskId].nextRunAt = newRunTime,
                      ![taskId].updatedAt = t]
    ELSE coll

\* rescheduleIfRecurring(task): task is the caller's copy of the document
rescheduleIfRecurring(coll, task, t) ==
    IF Falsy(task.intervalMs)
    THEN markCompleted(coll, task._id, FALSE, t)
    ELSE updateNextRun(coll, task._id, t + task.intervalMs[1], t)

\* mutant: deleteOne({}) -- one document is removed
deleteOneOnly(coll) ==
    IF coll = <<>> THEN coll
    ELSE [id \in (DOMAIN coll) \ {CHOOSE x \in DOMAIN coll : TRUE} |-> coll[id]]

\* deleteMany({})
deleteAll(coll) == <<>>

\* what a caller keeps of a task findDueTasks returned: the fields the class
\* reads back from it (rescheduleIfRecurring reads task._id and task.intervalMs)
TaskRef(doc) == [_id |-> doc._id, intervalMs |-> doc.intervalMs]
TaskRefs(r) == [i \in 1..Len(r) |-> TaskRef(r[i])]

\* ------------------------------------------------------- conversation log
\* createOrchestrator: insertOne of a chat with no messages
createOrchestrator(coll, id, userId, t) ==
    coll @@ (id :> [ _id |-> id,
                     userId |-> userId,
                     createdAt |-> t,
                     updatedAt |-> t,
                     messages |-> <<>> ])

\* addMessage, client side: the updateOne command built from the arguments,
\* with both new Date() values read when the call is made
addMessage(orchestratorId, role, name, data, t) ==
    [ filter |-> orchestratorId,
      push |-> [role |-> role, name |-> name, data |-> data, timestamp |-> t],
      set |-> t ]

\* mutant: $push with $position 0 (the new message goes first)
UpdateOnePushFirst(coll, c) ==
    IF c.filter \in DOMAIN coll
    THEN [coll EXCEPT ![c.filter].messages = <<c.push>> \o @,
                      ![c.filter].updatedAt = c.set]
    ELSE coll

\* mutant: $set of messages instead of $push
UpdateOneSet(coll, c) ==
    IF c.filter \in DOMAIN coll
    THEN [coll EXCEPT ![c.filter].messages = <<c.push>>,
                      ![c.filter].updatedAt = c.set]
    ELSE coll

\* mutant: updateOne(..., { upsert: true }) -- a missing chat is created
UpdateOnePushUpsert(coll, c) ==
    IF c.filter \in DOMAIN coll
    THEN [coll EXCEPT ![c.filter].messages = Append(@, c.push),
                      ![c.filter].updatedAt = c.set]
    ELSE coll @@ (c.filter :> [ _id |-> c.filter, userId |-> "u1", createdAt |-> c.set,
                                updatedAt |-> c.set, messages |-> <<c.push>> ])

\* mutant: updateMany({}, ...) -- the message is pushed to every chat
UpdateManyPush(coll, c) ==
    [id \in DOMAIN coll |-> [coll[id] EXCEPT !.messages = Append(@, c.push),
                                             !.updatedAt = c.set]]

\* addMessage, server side: updateOne({ _id }, { $push: { messages }, $set: { updatedAt } })
UpdateOnePush(coll, c) ==
    IF c.filter \in DOMAIN coll
    THEN [coll EXCEPT ![c.filter].messages = Append(@, c.push),
                      ![c.filter].updatedAt = c.set]
    ELSE coll

\* mutant: findOne({}) -- the filter without its _id
getMessagesAny(coll, orchestratorId) ==
    IF coll # <<>> THEN coll[CHOOSE id \in DOMAIN coll : TRUE].messages ELSE <<>>

\* getMessages: findOne({ _id }); [] when there is no such chat
getMessages(coll, orchestratorId) ==
    IF orchestratorId \in DOMAIN coll THEN coll[orchestratorId].messages ELSE <<>>

\* getOrchestratorById: findOne({ _id }); <<doc>>, or <<>> for null
getOrchestratorById(coll, orchestratorId) ==
    IF orchestratorId \in DOMAIN coll THEN <<coll[orchestratorId]>> ELSE <<>>

\* find({ userId }): the _ids of the chats of the user
ChatsOf(coll, userId) == { id \in DOMAIN coll : coll[id].userId = userId }

\* the arrays a cursor over the documents ids can give, in any order
Orders(ids) ==
    { s \in [1..Cardinality(ids) -> ids] :
        \A i, j \in 1..Cardinality(ids) : i # j => s[i] # s[j] }

\* mutant: .sort({ createdAt: 1 })
SortedOldestFirst(coll, ids) ==
    { s \in Orders(ids) :
        \A i, j \in 1..Cardinality(ids) :
            i < j => coll[s[i]].createdAt <= coll[s[j]].createdAt }

\* .sort({ createdAt: -1 }): createdAt descending (the order among equal keys
\* is the server's choice)
SortedNewestFirst(coll, ids) ==
    { s \in Orders(ids) :
        \A i, j \in 1..Cardinality(ids) :
            i < j => coll[s[i]].createdAt >= coll[s[j]].createdAt }

\* findOrchestratorsByUser: find({ userId }).toArray() -- no sort, so the
\* order is the one the server happens to return
findOrchestratorsByUser(coll, userId) ==
    { [i \in 1..Len(s) |-> coll[s[i]]] : s \in Orders(ChatsOf(coll, userId)) }

\* getOrchestratorsByUserId: find({ userId }).sort({ createdAt: -1 }).toArray()
getOrchestratorsByUserId(coll, userId) ==
    { [i \in 1..Len(s) |-> coll[s[i]]] :
          s \in SortedNewestFirst(coll, ChatsOf(coll, userId)) }

\* ---------------------------------------------------------------- actions
InitTasks ==
    /\ tasks = <<>>
    /\ nextTaskId = 1
    /\ held = <<>>

InitLog ==
    /\ sessions = <<>>
    /\ nextSessionId = 1
    /\ req = [p \in Producers |-> <<>>]
    /\ nsent = [p \in Producers |-> 0]
    /\ commitLog = [s \in 1..MaxSessions |-> <<>>]
    /\ got = <<>>

InitSched ==
    /\ wpc = [w \in Workers |-> "poll"]
    /\ batch = [w \in Workers |-> <<>>]
    /\ cur = [w \in Workers |-> <<>>]
    /\ claimed = [id \in 1..MaxTasks |-> 0]
    /\ ends = [id \in 1..MaxTasks |-> 0]

\* the methods below are called on a store that connect() has set up
InitCalls ==
    /\ ret = <<>>
    /\ conn = connect(NewClient)

Init ==
    /\ now = 0
    /\ due = <<>>
    /\ InitTasks
    /\ InitLog
    /\ InitSched
    /\ InitCalls

\* the clock advances
Tick ==
    /\ now < MaxTime
    /\ now' = now + 1
    /\ UNCHANGED <<callVars, taskVars, due, logVars, schedVars>>

\* ---- the task store's methods, each called with any arguments
CreateTaskUpTo(n) ==
    /\ nextTaskId <= n
    /\ \E u \in TaskUsers, h \in HandlerNames, d \in TaskDatas,
          at \in Times, iv \in Intervals :
          tasks' = createTask(tasks, nextTaskId, u, h, d, at, iv, now)
    /\ nextTaskId' = nextTaskId + 1
    /\ UNCHANGED <<callVars, now, held, due, logVars, schedVars>>

CreateTask == CreateTaskUpTo(MaxTasks)

FindDueTasks ==
    /\ \E limit \in Limits : \E r \in findDueTasks(tasks, limit, now) :
          held' = TaskRefs(r)
    /\ UNCHANGED <<callVars, now, tasks, nextTaskId, due, logVars, schedVars>>

MarkRunning ==
    /\ \E id \in 1..MaxTasks : tasks' = markRunning(tasks, id, now)
    /\ UNCHANGED <<callVars, now, nextTaskId, held, due, logVars, schedVars>>

MarkCompleted ==
    /\ \E id \in 1..MaxTasks, failed \in BOOLEAN :
          tasks' = markCompleted(tasks, id, failed, now)
    /\ UNCHANGED <<callVars, now, nextTaskId, held, due, logVars, schedVars>>

UpdateNextRun ==
    /\ \E id \in 1..MaxTasks, at \in Times :
          tasks' = updateNextRun(tasks, id, at, now)
    /\ UNCHANGED <<callVars, now, nextTaskId, held, due, logVars, schedVars>>

Reschedule(task) ==
    /\ tasks' = rescheduleIfRecurring(tasks, task, now)
    /\ UNCHANGED <<callVars, now, nextTaskId, held, due, logVars, schedVars>>

RescheduleIfRecurring == \E i \in 1..Len(held) : Reschedule(held[i])

DeleteAll ==
    /\ tasks' = deleteAll(tasks)
    /\ UNCHANGED <<callVars, now, nextTaskId, held, due, logVars, schedVars>>

TaskNext ==
    \/ Tick
    \/ CreateTask
    \/ FindDueTasks
    \/ RescheduleIfRecurring
    \/ MarkRunning
    \/ MarkCompleted
    \/ UpdateNextRun
    \/ DeleteAll

TaskSpec == Init /\ [][TaskNext]_vars

\* ---- the conversation log's methods; an addMessage call is in flight
\* ---- between the call and the server applying its command
CreateOrchestratorUpTo(n) ==
    /\ nextSessionId <= n
    /\ \E u \in Users : sessions' = createOrchestrator(sessions, nextSessionId, u, now)
    /\ nextSessionId' = nextSessionId + 1
    /\ UNCHANGED <<callVars, now, taskVars, due, req, nsent, commitLog, got, schedVars>>

CreateOrchestrator == CreateOrchestratorUpTo(MaxSessions)

AddMessageCall(p) ==
    /\ req[p] = <<>>
    /\ nsent[p] < MaxMessages
    /\ \E id \in 1..MaxSessions :
          req' = [req EXCEPT ![p] =
                     <<addMessage(id, RoleOf(p), "n", <<p, nsent[p] + 1>>, now)>>]
    /\ nsent' = [nsent EXCEPT ![p] = @ + 1]
    /\ UNCHANGED <<callVars, now, taskVars, due, sessions, nextSessionId, commitLog, got, schedVars>>

AddMessageCommit(p) ==
    /\ req[p] # <<>>
    /\ sessions' = UpdateOnePush(sessions, req[p][1])
    /\ commitLog' = IF req[p][1].filter \in DOMAIN sessions
                    THEN [commitLog EXCEPT ![req[p][1].filter] =
                              Append(@, req[p][1].push.data)]
                    ELSE commitLog
    /\ req' = [req EXCEPT ![p] = <<>>]
    /\ UNCHANGED <<callVars, now, taskVars, due, nextSessionId, nsent, got, schedVars>>

GetMessages ==
    /\ \E id \in 1..MaxSessions : got' = <<id, getMessages(sessions, id)>>
    /\ UNCHANGED <<callVars, now, taskVars, due, sessions, nextSessionId, req, nsent,
                   commitLog, schedVars>>

\* ---- several producers appending concurrently
LogNext ==
    \/ Tick
    \/ CreateOrchestrator
    \/ \E p \in Producers : AddMessageCall(p)
    \/ \E p \in Producers : AddMessageCommit(p)
    \/ GetMessages

LogSpec == Init /\ [][LogNext]_vars

\* ---- the whole store: one client calling any method of the class
CreateStoreTask == CreateTaskUpTo(MaxStoreTasks)

Next ==
    \/ Tick
    \/ CreateOrchestrator
    \/ AddMessageCall(1)
    \/ AddMessageCommit(1)
    \/ GetMessages
    \/ CreateStoreTask
    \/ FindDueTasks
    \/ RescheduleIfRecurring
    \/ MarkRunning
    \/ MarkCompleted
    \/ UpdateNextRun
    \/ DeleteAll

Spec == Init /\ [][Next]_vars

\* ---- findDueTasks on any store: every collection of up to MaxFindTasks
\* ---- tasks with any status and nextRunAt, at any time
FindStores ==
    UNION { [ 1..n -> [ _id : {0}, userId : TaskUsers, handlerName : HandlerNames,
                        taskData : TaskDatas, nextRunAt : Times, intervalMs : {<<>>},
                        status : Statuses, createdAt : {0}, updatedAt : {0} ] ] :
            n \in 0..MaxFindTasks }

FindInit ==
    /\ now \in Times
    /\ \E st \in FindStores :
          tasks = [id \in DOMAIN st |-> [st[id] EXCEPT !._id = id]]
    /\ nextTaskId = Len(tasks) + 1
    /\ held = <<>>
    /\ due = <<>>
    /\ InitLog
    /\ InitSched
    /\ InitCalls

FindDueTasksCall ==
    /\ \E limit \in Limits : \E r \in findDueTasks(tasks, limit, now) :
          due' = <<limit, r>>
    /\ UNCHANGED <<callVars, now, taskVars, logVars, schedVars>>

FindNext == FindDueTasksCall

FindSpec == FindInit /\ [][FindNext]_vars

\* ---- createTask called with any arguments; the promise resolves with the
\* ---- insertedId of the document
CreateTaskCall ==
    /\ nextTaskId <= MaxCreateTasks
    /\ \E u \in TaskUsers, h \in AnyHandlerNames, d \in TaskDatas,
          at \in AnyTimes, iv \in Intervals :
          /\ tasks' = createTask(tasks, nextTaskId, u, h, d, at, iv, now)
          /\ ret' = << [ op |-> "createTask", handlerName |-> h, nextRunAt |-> at,
                         out |-> "resolved", id |-> nextTaskId ] >>
    /\ nextTaskId' = nextTaskId + 1
    /\ UNCHANGED <<conn, now, held, due, logVars, schedVars>>

CreateNext ==
    \/ Tick
    \/ CreateTaskCall
    \/ DeleteAll

CreateSpec == Init /\ [][CreateNext]_vars

\* ---- one client calling the methods one after the other; ret records the
\* ---- call and how its promise settled (every method resolves; the methods
\* ---- declared Promise<void> resolve without a value)
SessionIds == 1..(MaxSessions + 1)

MarkRunningCall ==
    /\ \E id \in 1..MaxTasks :
          /\ tasks' = markRunning(tasks, id, now)
          /\ ret' = << [op |-> "markRunning", id |-> id, out |-> "resolved"] >>
    /\ UNCHANGED <<conn, now, nextTaskId, held, due, logVars, schedVars>>

MarkCompletedCall ==
    /\ \E id \in 1..MaxTasks, failed \in BOOLEAN :
          /\ tasks' = markCompleted(tasks, id, failed, now)
          /\ ret' = << [op |-> "markCompleted", id |-> id, out |-> "resolved"] >>
    /\ UNCHANGED <<conn, now, nextTaskId, held, due, logVars, schedVars>>

UpdateNextRunCall ==
    /\ \E id \in 1..MaxTasks, at \in Times :
          /\ tasks' = updateNextRun(tasks, id, at, now)
          /\ ret' = << [op |-> "updateNextRun", id |-> id, out |-> "resolved"] >>
    /\ UNCHANGED <<conn, now, nextTaskId, held, due, logVars, schedVars>>

\* addMessage from the call to its promise resolving
AddMessageDone ==
    /\ nsent[1] < MaxMessages
    /\ \E id \in SessionIds :
          /\ sessions' = UpdateOnePush(sessions,
                             addMessage(id, RoleOf(1), "n", <<1, nsent[1] + 1>>, now))
          /\ commitLog' = IF id \in DOMAIN sessions
                          THEN [commitLog EXCEPT ![id] = Append(@, <<1, nsent[1] + 1>>)]
                          ELSE commitLog
          /\ ret' = << [op |-> "addMessage", id |-> id, out |-> "resolved"] >>
    /\ nsent' = [nsent EXCEPT ![1] = @ + 1]
    /\ UNCHANGED <<conn, now, taskVars, due, nextSessionId, req, got, schedVars>>

GetMessagesCall ==
    /\ \E id \in SessionIds :
          ret' = << [op |-> "getMessages", id |-> id, out |-> "resolved",
                     val |-> getMessages(sessions, id)] >>
    /\ UNCHANGED <<conn, now, taskVars, due, logVars, schedVars>>

GetOrchestratorByIdCall ==
    /\ \E id \in SessionIds :
          ret' = << [op |-> "getOrchestratorById", id |-> id, out |-> "resolved",
                     val |-> getOrchestratorById(sessions, id)] >>
    /\ UNCHANGED <<conn, now, taskVars, due, logVars, schedVars>>

CallNext ==
    \/ Tick
    \/ CreateStoreTask
    \/ CreateOrchestrator
    \/ MarkRunningCall
    \/ MarkCompletedCall
    \/ UpdateNextRunCall
    \/ AddMessageDone
    \/ GetMessagesCall
    \/ GetOrchestratorByIdCall
    \/ DeleteAll

CallSpec == Init /\ [][CallNext]_vars

\* ---- listing the chats of a user, among the chats of several users
CreateListSession == CreateOrchestratorUpTo(MaxListSessions)

FindOrchestratorsByUserCall ==
    /\ \E u \in Users : \E r \in findOrchestratorsByUser(sessions, u) :
          ret' = << [op |-> "findOrchestratorsByUser", userId |-> u,
                     out |-> "resolved", val |-> r] >>
    /\ UNCHANGED <<conn, now, taskVars, due, logVars, schedVars>>

GetOrchestratorsByUserIdCall ==
    /\ \E u \in Users : \E r \in getOrchestratorsByUserId(sessions, u) :
          ret' = << [op |-> "getOrchestratorsByUserId", userId |-> u,
                     out |-> "resolved", val |-> r] >>
    /\ UNCHANGED <<conn, now, taskVars, due, logVars, schedVars>>

ListNext ==
    \/ Tick
    \/ CreateListSession
    \/ FindOrchestratorsByUserCall
    \/ GetOrchestratorsByUserIdCall

ListSpec == Init /\ [][ListNext]_vars

\* ---- the three mutators called, in any order and with any id, on a store
\* ---- that holds MaxTasks tasks created at time 0 and a chat with a message
FrameInit ==
    /\ now = 0
    /\ due = <<>>
    /\ \E st \in [1..MaxTasks -> Times \X Intervals] :
          tasks = [id \in 1..MaxTasks |->
                      createTask(<<>>, id, "u1", "h", "d", st[id][1], st[id][2], 0)[id]]
    /\ nextTaskId = MaxTasks + 1
    /\ held = <<>>
    /\ sessions = UpdateOnePush(createOrchestrator(<<>>, 1, "u1", 0),
                                addMessage(1, RoleOf(1), "n", <<1, 1>>, 0))
    /\ nextSessionId = 2
    /\ req = [p \in Producers |-> <<>>]
    /\ nsent = [p \in Producers |-> IF p = 1 THEN 1 ELSE 0]
    /\ commitLog = [s \in 1..MaxSessions |-> IF s = 1 THEN << <<1, 1>> >> ELSE <<>>]
    /\ got = <<>>
    /\ InitSched
    /\ InitCalls

FrameNext ==
    \/ Tick
    \/ MarkRunningCall
    \/ MarkCompletedCall
    \/ UpdateNextRunCall

FrameSpec == FrameInit /\ [][FrameNext]_vars

\* ---- chats of several users next to a stored task: createOrchestrator with
\* ---- the id it returns, and addMessage to any chat, stored or not
IsoInit ==
    /\ now = 0
    /\ due = <<>>
    /\ tasks = createTask(<<>>, 1, "u1", "h", "d", 0, <<>>, 0)
    /\ nextTaskId = 2
    /\ held = <<>>
    /\ InitLog
    /\ InitSched
    /\ InitCalls

CreateOrchestratorCall ==
    /\ nextSessionId <= MaxIsoSessions
    /\ \E u \in Users :
          /\ sessions' = createOrchestrator(sessions, nextSessionId, u, now)
          /\ ret' = << [op |-> "createOrchestrator", userId |-> u,
                         out |-> "resolved", id |-> nextSessionId] >>
    /\ nextSessionId' = nextSessionId + 1
    /\ UNCHANGED <<conn, now, taskVars, due, req, nsent, commitLog, got, schedVars>>

AddMessageToAny ==
    /\ nsent[1] < MaxMessages
    /\ \E id \in 1..(MaxIsoSessions + 1) :
          /\ sessions' = UpdateOnePush(sessions,
                             addMessage(id, RoleOf(1), "n", <<1, nsent[1] + 1>>, now))
          /\ ret' = << [op |-> "addMessage", id |-> id, out |-> "resolved"] >>
    /\ nsent' = [nsent EXCEPT ![1] = @ + 1]
    /\ UNCHANGED <<conn, now, taskVars, due, nextSessionId, req, commitLog, got, schedVars>>

IsoNext ==
    \/ Tick
    \/ CreateOrchestratorCall
    \/ AddMessageToAny

IsoSpec == IsoInit /\ [][IsoNext]_vars

\* ---- the life cycle of the client: connect and close called any number of
\* ---- times, tasks and chats created while the client is connected
ConnInit ==
    /\ now = 0
    /\ due = <<>>
    /\ InitTasks
    /\ InitLog
    /\ InitSched
    /\ ret = <<>>
    /\ conn = NewClient

\* ret keeps whether the client was connected when connect() was called
ConnectCall ==
    /\ conn.connected \/ conn.opens < MaxOpens
    /\ conn' = connect(conn)
    /\ ret' = << [op |-> "connect", out |-> "resolved", connected |-> conn.connected] >>
    /\ UNCHANGED <<now, taskVars, due, logVars, schedVars>>

CloseCall ==
    /\ conn' = close(conn)
    /\ ret' = << [op |-> "close", out |-> "resolved", connected |-> conn.connected] >>
    /\ UNCHANGED <<now, taskVars, due, logVars, schedVars>>

ConnCreateTask == conn.connected /\ conn.bound /\ CreateStoreTask

ConnCreateOrchestrator == conn.connected /\ conn.bound /\ CreateOrchestrator

ConnNext ==
    \/ Tick
    \/ ConnectCall
    \/ CloseCall
    \/ ConnCreateTask
    \/ ConnCreateOrchestrator

ConnSpec == ConnInit /\ [][ConnNext]_vars

\* ---- the scheduler loop: each worker polls, then for each task of the poll
\* ---- marks it running, runs its handler and records the outcome
NextStep(rest) == IF rest = <<>> THEN "poll" ELSE "claim"

Poll(w) ==
    /\ wpc[w] = "poll"
    /\ \E limit \in Limits : \E r \in findDueTasks(tasks, limit, now) :
          /\ batch' = [batch EXCEPT ![w] = TaskRefs(r)]
          /\ wpc' = [wpc EXCEPT ![w] = NextStep(r)]
    /\ UNCHANGED <<callVars, now, taskVars, due, logVars, cur, claimed, ends>>

\* ends after a write to task id that gives the collection after: one more
\* when the write moved the task into, or to the other, terminal status
Ended(id, after) ==
    IF /\ id \in DOMAIN after
       /\ after[id].status \in {"completed", "failed"}
       /\ after[id].status # tasks[id].status
    THEN [ends EXCEPT ![id] = @ + 1]
    ELSE ends

\* markRunning resolves without a result, so the worker goes on to the handler
Claim(w) ==
    /\ wpc[w] = "claim"
    /\ tasks' = markRunning(tasks, Head(batch[w])._id, now)
    /\ cur' = [cur EXCEPT ![w] = <<Head(batch[w])>>]
    /\ batch' = [batch EXCEPT ![w] = Tail(@)]
    /\ wpc' = [wpc EXCEPT ![w] = "run"]
    /\ claimed' = [claimed EXCEPT ![Head(batch[w])._id] = @ + 1]
    /\ UNCHANGED <<callVars, now, nextTaskId, held, due, logVars, ends>>

\* the handler returned: rescheduleIfRecurring(task) is called; it reads the
\* clock and sends its updateOne command
HandlerSuccess(w) ==
    /\ wpc[w] = "run"
    /\ cur' = [cur EXCEPT ![w] = <<cur[w][1], now>>]
    /\ wpc' = [wpc EXCEPT ![w] = "write"]
    /\ UNCHANGED <<callVars, now, taskVars, due, logVars, batch, claimed, ends>>

\* the server applies the command of rescheduleIfRecurring, which carries the
\* dates computed when the call was made
RescheduleApply(w) ==
    /\ wpc[w] = "write"
    /\ tasks' = rescheduleIfRecurring(tasks, cur[w][1], cur[w][2])
    /\ claimed' = IF Falsy(cur[w][1].intervalMs)
                  THEN claimed
                  ELSE [claimed EXCEPT ![cur[w][1]._id] = 0]
    /\ ends' = Ended(cur[w][1]._id, tasks')
    /\ cur' = [cur EXCEPT ![w] = <<>>]
    /\ wpc' = [wpc EXCEPT ![w] = NextStep(batch[w])]
    /\ UNCHANGED <<callVars, now, nextTaskId, held, due, logVars, batch>>

\* the handler threw: markCompleted(task._id, true)
HandlerFailure(w) ==
    /\ wpc[w] = "run"
    /\ tasks' = markCompleted(tasks, cur[w][1]._id, TRUE, now)
    /\ ends' = Ended(cur[w][1]._id, tasks')
    /\ cur' = [cur EXCEPT ![w] = <<>>]
    /\ wpc' = [wpc EXCEPT ![w] = NextStep(batch[w])]
    /\ UNCHANGED <<callVars, now, nextTaskId, held, due, logVars, batch, claimed>>

SchedNext ==
    \/ Tick
    \/ CreateTask
    \/ \E w \in Workers : Poll(w)
    \/ \E w \in Workers : Claim(w)
    \/ \E w \in Workers : HandlerSuccess(w)
    \/ \E w \in Workers : RescheduleApply(w)
    \/ \E w \in Workers : HandlerFailure(w)

SchedSpec == Init /\ [][SchedNext]_vars

\* ---- the scheduler loop with workers that may crash: a worker whose handler
\* ---- runs dies before it calls rescheduleIfRecurring or markCompleted, and
\* ---- its process starts again with nothing in memory
Crash(w) ==
    /\ wpc[w] = "run"
    /\ wpc' = [wpc EXCEPT ![w] = "poll"]
    /\ batch' = [batch EXCEPT ![w] = <<>>]
    /\ cur' = [cur EXCEPT ![w] = <<>>]
    /\ UNCHANGED <<callVars, now, taskVars, due, logVars, claimed, ends>>

CrashNext ==
    \/ SchedNext
    \/ \E w \in Workers : Crash(w)

CrashSpec == Init /\ [][CrashNext]_vars

\* ---- the scheduler loop on a store that holds MaxTasks tasks, created at
\* ---- time 0 with any arguments
PollInit ==
    /\ now = 0
    /\ due = <<>>
    /\ \E st \in [1..MaxTasks -> Times \X Intervals] :
          tasks = [id \in 1..MaxTasks |->
                      createTask(<<>>, id, "u1", "h", "d", st[id][1], st[id][2], 0)[id]]
    /\ nextTaskId = MaxTasks + 1
    /\ held = <<>>
    /\ InitLog
    /\ InitSched
    /\ InitCalls

PollNext ==
    \/ Tick
    \/ \E w \in Workers : Poll(w)
    \/ \E w \in Workers : Claim(w)
    \/ \E w \in Workers : HandlerSuccess(w)
    \/ \E w \in Workers : RescheduleApply(w)
    \/ \E w \in Workers : HandlerFailure(w)

\* time passes, and worker 1 keeps repeating its cycle: it polls, claims what
\* it polled, its handlers return or throw and its commands reach the server;
\* the other workers may stop at any point
PollFairSpec ==
    /\ PollInit
    /\ [][PollNext]_vars
    /\ WF_vars(Tick)
    /\ WF_vars(Poll(1))
    /\ WF_vars(Claim(1))
    /\ WF_vars(HandlerSuccess(1) \/ HandlerFailure(1))
    /\ WF_vars(RescheduleApply(1))

\* a handler that runs returns or throws, and a command sent reaches the server
SchedFairSpec ==
    /\ SchedSpec
    /\ \A w \in Workers :
          /\ WF_vars(HandlerSuccess(w) \/ HandlerFailure(w))
          /\ WF_vars(RescheduleApply(w))

\* ================================================================= claims
Terminal == {"completed", "failed"}

\* the status changes of the state machine pending -> running -> pending |
\* completed | failed
AllowedChanges ==
    { <<"pending", "running">>, <<"running", "pending">>,
      <<"running", "completed">>, <<"running", "failed">> }

\* C1 (SchedSpec): of the workers that saw a pending due task in their poll and
\* try to claim it, exactly one succeeds: a task is never claimed with success
\* twice since it last became pending.
C1_AtomicClaim == \A id \in 1..MaxTasks : claimed[id] <= 1

\* C2 (SchedSpec): a due task is handed to one worker only: two workers never
\* run the handler of the same task at the same time.
C2_NoDoubleDispatch ==
    \A w1, w2 \in Workers :
        (w1 # w2 /\ wpc[w1] = "run" /\ wpc[w2] = "run")
            => cur[w1][1]._id # cur[w2][1]._id

\* C3 (TaskSpec): every change of a task's status is pending -> running,
\* running -> pending, running -> completed or running -> failed; in
\* particular a completed or failed task keeps its status.
C3_StatusStateMachine ==
    [][\A id \in (DOMAIN tasks) \cap (DOMAIN tasks') :
          tasks[id].status # tasks'[id].status
              => <<tasks[id].status, tasks'[id].status>> \in AllowedChanges]_vars

\* the stored tasks that are due: pending with nextRunAt <= now
IsDue(id) == tasks[id].status = "pending" /\ tasks[id].nextRunAt <= now
DueIds == { id \in DOMAIN tasks : IsDue(id) }

\* C4 (FindSpec): every task findDueTasks returns is a stored task that is
\* pending with nextRunAt <= now; a task with nextRunAt > now or with status
\* running, completed or failed is not in the result.
C4_FindDueSound ==
    due # <<>> =>
        /\ \A i \in 1..Len(due[2]) :
              /\ due[2][i]._id \in DOMAIN tasks
              /\ due[2][i] = tasks[due[2][i]._id]
              /\ due[2][i].status = "pending"
              /\ due[2][i].nextRunAt <= now
        /\ \A id \in DOMAIN tasks :
              (tasks[id].nextRunAt > now \/ tasks[id].status # "pending")
                  => \A i \in 1..Len(due[2]) : due[2][i]._id # id

\* C4 witness: a call returned a task while the store also held a pending task
\* not yet due and a running task whose nextRunAt has passed.
C4_Witness ==
    /\ due # <<>>
    /\ Len(due[2]) >= 1
    /\ \E id \in DOMAIN tasks :
          tasks[id].status = "pending" /\ tasks[id].nextRunAt > now
    /\ \E id \in DOMAIN tasks :
          tasks[id].status = "running" /\ tasks[id].nextRunAt <= now

\* the result r holds n distinct due tasks, earliest nextRunAt first, and no
\* due task left out is due strictly earlier than one in r
EarliestDue(r, n) ==
    /\ Len(r) = n
    /\ \A i \in 1..Len(r) : r[i]._id \in DueIds
    /\ \A i, j \in 1..Len(r) : i # j => r[i]._id # r[j]._id
    /\ \A i, j \in 1..Len(r) : i < j => r[i].nextRunAt <= r[j].nextRunAt
    /\ \A id \in DueIds :
          (\A i \in 1..Len(r) : r[i]._id # id)
              => \A i \in 1..Len(r) : tasks[id].nextRunAt >= r[i].nextRunAt

C6_CompletedIsFinal ==
    [][\A id \in DOMAIN tasks :
          (tasks[id].intervalMs = <<>> /\ tasks[id].status = "completed")
              => (id \in DOMAIN tasks' /\ tasks'[id].status = "completed")]_vars

\* C7 (TaskSpec): rescheduleIfRecurring(task) at time T on a stored task with
\* intervalMs = I set leaves it pending with nextRunAt = T + I.
C7_RescheduleAnchored ==
    [][\A i \in 1..Len(held) :
          (/\ held[i].intervalMs # <<>>
           /\ held[i]._id \in DOMAIN tasks
           /\ Reschedule(held[i]))
              => (/\ tasks'[held[i]._id].status = "pending"
                  /\ tasks'[held[i]._id].nextRunAt = now + held[i].intervalMs[1])]_vars

\* the part of C7 the code keeps (TaskSpec): the same for every I >= 1.
RescheduleAnchoredPositive ==
    [][\A i \in 1..Len(held) :
          (/\ held[i].intervalMs # <<>>
           /\ held[i].intervalMs[1] >= 1
           /\ held[i]._id \in DOMAIN tasks
           /\ Reschedule(held[i]))
              => (/\ tasks'[held[i]._id].status = "pending"
                  /\ tasks'[held[i]._id].nextRunAt = now + held[i].intervalMs[1])]_vars

\* the data of the messages of an array, in order
DataOf(msgs) == [i \in 1..Len(msgs) |-> msgs[i].data]

IsPrefix(a, b) == Len(a) <= Len(b) /\ \A i \in 1..Len(a) : a[i] = b[i]

\* C8 (LogSpec): with producers appending concurrently, getMessages returns the
\* messages of a session in the order the server applied the appends, each one
\* once; two appends made one after the other by a producer are returned in
\* that order; an array returned earlier is the commit order of its time.
C8_CommitOrder ==
    /\ \A s \in 1..MaxSessions :
          LET d == DataOf(getMessages(sessions, s))
          IN  /\ d = commitLog[s]
              /\ \A i, j \in 1..Len(d) : i # j => d[i] # d[j]
              /\ \A i, j \in 1..Len(d) :
                    (i < j /\ d[i][1] = d[j][1]) => d[i][2] < d[j][2]
    /\ got # <<>> => IsPrefix(DataOf(got[2]), commitLog[got[1]])

\* C8 witness: a message of producer 2 was applied before a message producer 1
\* had sent earlier, and getMessages returned them in that (commit) order.
C8_Witness ==
    /\ got # <<>>
    /\ Len(got[2]) = 2
    /\ got[2][1].data[1] = 2
    /\ got[2][2].data[1] = 1
    /\ got[2][2].timestamp < got[2][1].timestamp

\* C9 (Spec): no step of the store removes a session or removes, reorders or
\* changes a message already appended: the messages of every session before a
\* step are a prefix of its messages after it.
C9_AppendOnly ==
    [][\A s \in DOMAIN sessions :
          /\ s \in DOMAIN sessions'
          /\ IsPrefix(sessions[s].messages, sessions'[s].messages)]_vars

\* C9 witness: a session holds two messages after a task was created and
\* deleteAll emptied the tasks collection.
C9_Witness ==
    /\ \E s \in DOMAIN sessions : Len(sessions[s].messages) = 2
    /\ nextTaskId > 1
    /\ tasks = <<>>

\* C10 (TaskSpec): markCompleted(id, f) moves a running task to completed
\* (f false) or failed (f true) and leaves a completed or failed task as it is.
C10_MarkCompletedFromRunningOnly ==
    [][\A id \in DOMAIN tasks : \A f \in BOOLEAN :
          (/\ tasks' = markCompleted(tasks, id, f, now)
           /\ UNCHANGED <<now, nextTaskId, held>>)
              => /\ tasks[id].status = "running"
                    => tasks'[id].status = IF f THEN "failed" ELSE "completed"
                 /\ tasks[id].status \in Terminal => tasks'[id] = tasks[id]]_vars

\* C11 (CreateSpec): createTask with an empty handlerName or with a nextRunAt
\* that is not a valid timestamp fails with ValidationError and leaves the
\* tasks as they are; every other createTask resolves and inserts exactly one
\* new pending task under an id no stored task has.
C11_CreateTaskValidated ==
    [][CreateTaskCall =>
          IF ret'[1].handlerName = "" \/ ret'[1].nextRunAt = InvalidDate
          THEN ret'[1].out = "ValidationError" /\ tasks' = tasks
          ELSE /\ ret'[1].out = "resolved"
               /\ ret'[1].id \notin DOMAIN tasks
               /\ DOMAIN tasks' = DOMAIN tasks \cup {ret'[1].id}
               /\ tasks'[ret'[1].id].status = "pending"
               /\ \A id \in DOMAIN tasks : tasks'[id] = tasks[id]]_vars

\* the part of C11 the code keeps (CreateSpec): every createTask, whatever its
\* arguments, resolves and inserts exactly one new pending task under an id no
\* stored task has and none had before.
CreateTaskInsertsPending ==
    [][CreateTaskCall =>
          /\ ret'[1].out = "resolved"
          /\ ret'[1].id \notin DOMAIN tasks
          /\ ret'[1].id >= nextTaskId
          /\ DOMAIN tasks' = DOMAIN tasks \cup {ret'[1].id}
          /\ tasks'[ret'[1].id].status = "pending"
          /\ \A id \in DOMAIN tasks : tasks'[id] = tasks[id]]_vars

\* C12 (SchedSpec): when the handler of a running task throws, the task becomes
\* failed with its nextRunAt as it was, also when intervalMs is set, and a
\* failed task stays failed with the same nextRunAt in every later state: it is
\* never pending again and never rescheduled.
C12_FailedIsFinal ==
    [][/\ \A w \in Workers :
             HandlerFailure(w) =>
                 /\ tasks'[cur[w][1]._id].status = "failed"
                 /\ tasks'[cur[w][1]._id].nextRunAt = tasks[cur[w][1]._id].nextRunAt
       /\ \A id \in DOMAIN tasks :
             tasks[id].status = "failed" =>
                 /\ tasks'[id].status = "failed"
                 /\ tasks'[id].nextRunAt = tasks[id].nextRunAt]_vars

\* C13 (SchedSpec): over the life of a task without intervalMs there is at most
\* one write that moves it into completed or failed, or from one of them to the
\* other, and a task that is completed or failed has had exactly one.
C13_TerminalOnce ==
    \A id \in DOMAIN tasks :
        tasks[id].intervalMs = <<>> =>
            /\ ends[id] <= 1
            /\ tasks[id].status \in Terminal => ends[id] = 1

\* the liveness half of C13 (SchedFairSpec): a task without intervalMs whose
\* handler a worker runs is eventually completed or failed.
TerminalEventually ==
    \A id \in 1..MaxTasks : \A w \in Workers :
        (/\ wpc[w] = "run"
         /\ cur[w][1]._id = id
         /\ cur[w][1].intervalMs = <<>>)
            ~> (id \in DOMAIN tasks /\ tasks[id].status \in Terminal)

\* C14 (TaskSpec): rescheduleIfRecurring(task) on a stored task whose intervalMs
\* is present, 0 included, leaves the task pending and not completed; it is
\* markCompleted(id, false) only when intervalMs is unset.
C14_PresentIsRecurring ==
    [][\A i \in 1..Len(held) :
          (held[i]._id \in DOMAIN tasks /\ Reschedule(held[i]))
              => IF held[i].intervalMs # <<>>
                 THEN tasks'[held[i]._id].status = "pending"
                 ELSE tasks' = markCompleted(tasks, held[i]._id, FALSE, now)]_vars

\* C15 (SchedSpec): no step of the scheduler loop (poll, claim, handler run,
\* rescheduleIfRecurring with its updateNextRun) moves the nextRunAt of a task
\* to an earlier time.
C15_NextRunMonotone ==
    [][\A id \in (DOMAIN tasks) \cap (DOMAIN tasks') :
          tasks'[id].nextRunAt >= tasks[id].nextRunAt]_vars

\* the stored data: both collections
store == <<tasks, sessions>>

\* C16 (CallSpec): markRunning, markCompleted and updateNextRun with a task id
\* that is not stored, and addMessage with a session id that is not stored,
\* settle with a not-found outcome and leave the store as it is.
C16_MissingIdNotFound ==
    [][/\ ((MarkRunningCall \/ MarkCompletedCall \/ UpdateNextRunCall)
             /\ ret'[1].id \notin DOMAIN tasks)
           => (ret'[1].out = "NotFound" /\ store' = store)
       /\ (AddMessageDone /\ ret'[1].id \notin DOMAIN sessions)
           => (ret'[1].out = "NotFound" /\ store' = store)]_vars

\* the part of C16 the code keeps (CallSpec): those calls leave the store as it is.
MissingIdLeavesStore ==
    [][/\ ((MarkRunningCall \/ MarkCompletedCall \/ UpdateNextRunCall)
             /\ ret'[1].id \notin DOMAIN tasks)
           => store' = store
       /\ (AddMessageDone /\ ret'[1].id \notin DOMAIN sessions)
           => store' = store]_vars

\* C17 (CallSpec): getMessages with a session id that is not stored resolves
\* with the empty array and getOrchestratorById with null; neither call
\* changes the store; getMessages on a stored session that no message was
\* appended to resolves with the empty array.
C17_MissingSessionReads ==
    [][/\ GetMessagesCall =>
             /\ ret'[1].id \notin DOMAIN sessions => ret'[1].val = <<>>
             /\ (ret'[1].id \in DOMAIN sessions /\ commitLog[ret'[1].id] = <<>>)
                    => ret'[1].val = <<>>
             /\ store' = store
       /\ GetOrchestratorByIdCall =>
             /\ ret'[1].id \notin DOMAIN sessions => ret'[1].val = <<>>
             /\ ret'[1].id \in DOMAIN sessions => ret'[1].val = <<sessions[ret'[1].id]>>
             /\ store' = store]_vars

\* C17 witness: getMessages resolved with the empty array for an id that is
\* not stored while the store holds a session with a message.
C17_Witness ==
    /\ ret # <<>>
    /\ ret[1].op = "getMessages"
    /\ ret[1].id \notin DOMAIN sessions
    /\ ret[1].val = <<>>
    /\ \E s \in DOMAIN sessions : Len(sessions[s].messages) >= 1

\* the array r holds exactly the stored chats of the user, each one once
ListsChatsOf(r, userId) ==
    /\ \A i \in 1..Len(r) :
          /\ r[i]._id \in DOMAIN sessions
          /\ r[i] = sessions[r[i]._id]
          /\ r[i].userId = userId
    /\ \A id \in DOMAIN sessions :
          sessions[id].userId = userId => \E i \in 1..Len(r) : r[i]._id = id
    /\ \A i, j \in 1..Len(r) : i # j => r[i]._id # r[j]._id

NewestFirst(r) == \A i, j \in 1..Len(r) : i < j => r[i].createdAt >= r[j].createdAt

\* C18 as claimed (ListSpec): findOrchestratorsByUser(u) and
\* getOrchestratorsByUserId(u) each return exactly the chats whose userId is u,
\* ordered newest-first by createdAt.
C18_ListNewestFirst ==
    [][(FindOrchestratorsByUserCall \/ GetOrchestratorsByUserIdCall) =>
          (ListsChatsOf(ret'[1].val, ret'[1].userId) /\ NewestFirst(ret'[1].val))]_vars

\* C18 amended (ListSpec): findOrchestratorsByUser(u) and
\* getOrchestratorsByUserId(u) each return exactly the chats whose userId is u;
\* getOrchestratorsByUserId returns them newest-first by createdAt, while the
\* order of findOrchestratorsByUser is not determined.
C18_ListExactSortedById ==
    [][/\ FindOrchestratorsByUserCall => ListsChatsOf(ret'[1].val, ret'[1].userId)
       /\ GetOrchestratorsByUserIdCall =>
             (ListsChatsOf(ret'[1].val, ret'[1].userId) /\ NewestFirst(ret'[1].val))]_vars

\* C18 witness: getOrchestratorsByUserId returned two chats of a user, the
\* later created first, while the store also holds a chat of another user.
C18_Witness ==
    /\ ret # <<>>
    /\ ret[1].op = "getOrchestratorsByUserId"
    /\ Len(ret[1].val) = 2
    /\ ret[1].val[1].createdAt > ret[1].val[2].createdAt
    /\ ret[1].val[1]._id > ret[1].val[2]._id
    /\ \E id \in DOMAIN sessions : sessions[id].userId # ret[1].userId

\* C19 (TaskSpec): deleteAll removes every task whatever its status: right
\* after it, and after every later step until the next createTask,
\* findDueTasks returns the empty array for every limit and every time.
C19_DeleteAllEmptiesDue ==
    [][(DeleteAll \/ (tasks = <<>> /\ nextTaskId' = nextTaskId)) =>
          /\ tasks' = <<>>
          /\ \A limit \in Limits, t \in Times :
                findDueTasks(tasks', limit, t) = {<<>>}]_vars

\* C19 witness: two tasks were created and found due, and deleteAll has emptied
\* the collection.
C19_Witness ==
    /\ tasks = <<>>
    /\ nextTaskId >= 3
    /\ Len(held) >= 2

OldestDue == { id \in DueIds : \A o \in DueIds : tasks[id].nextRunAt <= tasks[o].nextRunAt }

\* C21 (PollFairSpec): with worker 1 repeating the poll cycle, every task that
\* is pending with nextRunAt <= now eventually leaves pending (or has been
\* rescheduled past MaxTime, the last time the clock reaches); and a poll made
\* while tasks are due returns, for every limit, an oldest due task first (the
\* oldest one when no other due task has its nextRunAt).
C21_PollingFair ==
    /\ [][\A w \in Workers :
             (Poll(w) /\ DueIds # {}) =>
                 (batch'[w] # <<>> /\ batch'[w][1]._id \in OldestDue)]_vars
    /\ \A id \in 1..MaxTasks :
          (id \in DOMAIN tasks /\ IsDue(id))
              ~> (tasks[id].status # "pending" \/ tasks[id].nextRunAt > MaxTime)

\* C21 witness: a worker polled while two tasks were due and holds the older
\* one, the younger one still pending and due outside its batch.
C21_Witness ==
    \E w \in Workers :
        /\ wpc[w] = "claim"
        /\ Len(batch[w]) = 1
        /\ batch[w][1]._id \in DueIds
        /\ \E id \in DueIds :
              tasks[id].nextRunAt > tasks[batch[w][1]._id].nextRunAt

\* the times at which the calls that may take effect in the next step were made:
\* now, or the time a rescheduleIfRecurring still in flight was called
CallTimes == {now} \cup { cur[w][2] : w \in { v \in Workers : wpc[v] = "write" } }

\* C22 (SchedSpec): every write that changes a task sets its updatedAt to the
\* time of its call; the updatedAt of a task never decreases and is never
\* before its createdAt; createTask sets createdAt = updatedAt.
C22_UpdatedAtRefreshed ==
    [][/\ \A id \in (DOMAIN tasks) \cap (DOMAIN tasks') :
             /\ tasks'[id] # tasks[id] => tasks'[id].updatedAt \in CallTimes
             /\ tasks'[id].updatedAt >= tasks[id].updatedAt
             /\ tasks'[id].createdAt <= tasks'[id].updatedAt
       /\ \A id \in (DOMAIN tasks') \ (DOMAIN tasks) :
             tasks'[id].createdAt = tasks'[id].updatedAt]_vars

\* the part of C22 the code keeps (TaskSpec): with the methods called one
\* after the other, every write that changes a task sets its updatedAt to the
\* time of the call, updatedAt never decreases and is never before createdAt.
UpdatedAtRefreshedInSequence ==
    [][/\ \A id \in (DOMAIN tasks) \cap (DOMAIN tasks') :
             /\ tasks'[id] # tasks[id] => tasks'[id].updatedAt = now
             /\ tasks'[id].updatedAt >= tasks[id].updatedAt
             /\ tasks'[id].createdAt <= tasks'[id].updatedAt
       /\ \A id \in (DOMAIN tasks') \ (DOMAIN tasks) :
             tasks'[id].createdAt = tasks'[id].updatedAt]_vars

\* the timestamps of the messages of a chat never decrease along the array
TimestampsAscend(msgs) ==
    \A i, j \in 1..Len(msgs) : i < j => msgs[i].timestamp <= msgs[j].timestamp

\* the updatedAt of a chat with messages is not before its last message
UpdatedAtCoversLast(chat) ==
    chat.messages # <<>> =>
        chat.updatedAt >= chat.messages[Len(chat.messages)].timestamp

\* C23 (LogSpec): with producers appending concurrently, the timestamps of the
\* messages getMessages returns for a session never decrease along the array,
\* as timestamps given by the store when it applies the append would, and the
\* updatedAt of the session is at least the timestamp of its last message.
C23_TimestampsInCommitOrder ==
    \A s \in DOMAIN sessions :
        /\ TimestampsAscend(getMessages(sessions, s))
        /\ UpdatedAtCoversLast(sessions[s])

\* the part of C23 the code keeps (LogSpec): the updatedAt of a session is at
\* least (in fact equal to) the timestamp of its last message.
UpdatedAtIsLastTimestamp ==
    \A s \in DOMAIN sessions :
        /\ UpdatedAtCoversLast(sessions[s])
        /\ sessions[s].messages # <<>> =>
              sessions[s].updatedAt = sessions[s].messages[Len(sessions[s].messages)].timestamp

\* the part of C23 the code keeps (Spec): with one producer, whose calls are
\* applied one after the other, the timestamps never decrease along the array.
TimestampsAscendOneProducer ==
    \A s \in DOMAIN sessions : TimestampsAscend(getMessages(sessions, s))

\* the fields of a task no mutator writes
Immutable(doc) ==
    <<doc._id, doc.userId, doc.handlerName, doc.taskData, doc.intervalMs, doc.createdAt>>

\* C24 (FrameSpec): markRunning, markCompleted and updateNextRun change no task
\* but the one with the given id, and of that one only status and updatedAt
\* (and nextRunAt for updateNextRun); they add and remove no task and change
\* no session; the _id, userId, handlerName, taskData, intervalMs and createdAt
\* of every task stay as createTask set them.
C24_MutatorFrame ==
    [][/\ (MarkRunningCall \/ MarkCompletedCall \/ UpdateNextRunCall) =>
             /\ sessions' = sessions
             /\ DOMAIN tasks' = DOMAIN tasks
             /\ \A o \in DOMAIN tasks :
                   /\ o # ret'[1].id => tasks'[o] = tasks[o]
                   /\ ret'[1].op # "updateNextRun"
                         => tasks'[o].nextRunAt = tasks[o].nextRunAt
       /\ \A o \in (DOMAIN tasks) \cap (DOMAIN tasks') :
             Immutable(tasks'[o]) = Immutable(tasks[o])]_vars

\* C24 witness: updateNextRun(1, t) has rewritten task 1 at a later time while
\* task 2 is as createTask left it and the chat keeps its message.
C24_Witness ==
    /\ ret # <<>>
    /\ ret[1].op = "updateNextRun"
    /\ ret[1].id = 1
    /\ tasks[1].updatedAt > tasks[1].createdAt
    /\ tasks[1].status = "pending"
    /\ tasks[2].updatedAt = tasks[2].createdAt
    /\ tasks[2].status = "pending"
    /\ Len(sessions[1].messages) = 1

\* C25 (Spec): a step that adds a task is a createTask and adds the one task
\* of the id just generated, and a step that adds a session is a
\* createOrchestrator; no other step adds a record: not markCompleted,
\* updateNextRun or rescheduleIfRecurring with the snapshot of a task that
\* deleteAll has removed, and not addMessage on a session that is not stored.
C25_OnlyCreationAdds ==
    [][/\ (DOMAIN tasks') \ (DOMAIN tasks) # {} =>
             /\ CreateStoreTask
             /\ (DOMAIN tasks') \ (DOMAIN tasks) = {nextTaskId}
       /\ (DOMAIN sessions') \ (DOMAIN sessions) # {} =>
             /\ CreateOrchestrator
             /\ (DOMAIN sessions') \ (DOMAIN sessions) = {nextSessionId}]_vars

\* C25 witness: a caller still holds the snapshot of a task that deleteAll has
\* removed, and an addMessage on a session that is not stored has been
\* applied; the store holds no task and no session.
C25_Witness ==
    /\ held # <<>>
    /\ nextTaskId > 1
    /\ tasks = <<>>
    /\ nsent[1] >= 1
    /\ req[1] = <<>>
    /\ sessions = <<>>

\* a running task no worker holds: the worker that claimed it has crashed
Orphan(id) ==
    /\ tasks[id].status = "running"
    /\ \A w \in Workers : cur[w] = <<>> \/ cur[w][1]._id # id

\* C26 (CrashSpec): no poll returns a task that is running, and a running task
\* whose worker crashed before markCompleted or rescheduleIfRecurring stays
\* running, held by no worker, in every later state: no poller dispatches it
\* again.
C26_OrphanStaysRunning ==
    [][/\ \A w \in Workers :
             Poll(w) => \A i \in 1..Len(batch'[w]) :
                           tasks[batch'[w][i]._id].status # "running"
       /\ \A id \in DOMAIN tasks : Orphan(id) => Orphan(id)']_vars

\* C27 (IsoSpec): addMessage(s, ...) changes only the messages and updatedAt
\* of chat s: its _id, userId and createdAt, every other chat and every task
\* are as before, and no chat is added; createOrchestrator returns an id no
\* stored chat has, adds that one chat and leaves the stored chats and the
\* tasks as they are.
C27_SessionIsolation ==
    [][/\ AddMessageToAny =>
             /\ tasks' = tasks
             /\ DOMAIN sessions' = DOMAIN sessions
             /\ \A o \in DOMAIN sessions :
                   /\ o # ret'[1].id => sessions'[o] = sessions[o]
                   /\ sessions'[o]._id = sessions[o]._id
                   /\ sessions'[o].userId = sessions[o].userId
                   /\ sessions'[o].createdAt = sessions[o].createdAt
       /\ CreateOrchestratorCall =>
             /\ tasks' = tasks
             /\ ret'[1].id \notin DOMAIN sessions
             /\ DOMAIN sessions' = DOMAIN sessions \cup {ret'[1].id}
             /\ \A o \in DOMAIN sessions : sessions'[o] = sessions[o]]_vars

\* C27 witness: addMessage(1, ...) was applied at a later time to chat 1 while
\* chat 2, of the other user, is as createOrchestrator left it, next to the
\* stored task.
C27_Witness ==
    /\ ret # <<>>
    /\ ret[1].op = "addMessage"
    /\ ret[1].id = 1
    /\ DOMAIN sessions = {1, 2}
    /\ Len(sessions[1].messages) >= 1
    /\ sessions[1].updatedAt > sessions[2].createdAt
    /\ sessions[2].messages = <<>>
    /\ sessions[2].updatedAt = sessions[2].createdAt
    /\ sessions[2].userId # sessions[1].userId
    /\ tasks # <<>>
====
